---- MODULE Spec2Model ----
(***************************************************************************)
(* Model of keplergl_cli.Visualize (src/keplergl_cli/keplergl_cli.py).     *)
(*                                                                         *)
(* A Python str is a sequence of one-character strings, so that            *)
(* str.lower, str.replace, + and the f-string of add_data are computed     *)
(* character by character.  Python's None is the value None below.  The    *)
(* renderer (keplergl.KeplerGl) and the browser launcher (webbrowser) are  *)
(* outside the repository: the model records every call made on them in    *)
(* `calls` and keeps the renderer's documented state (its config and its   *)
(* dict of named datasets) in `map`.                                       *)
(***************************************************************************)
EXTENDS Integers, Sequences, FiniteSets, TLC

VARIABLES
    environ,          \* os.environ['MAPBOX_API_KEY'], None when unset
    phase,            \* "new": not constructed, "ready": __init__ returned, "failed": __init__ raised
    MAPBOX_API_KEY,   \* self.MAPBOX_API_KEY
    config_file,      \* self.config_file
    path,             \* self.path
    map,              \* self.map, the renderer: [config, data]
    html_path,        \* self.html_path
    calls,            \* calls made on the renderer and on webbrowser, in order
    stdout,           \* messages printed
    ops,              \* number of method calls made on the constructed object
    last              \* the last operation: its name, arguments, exception, result,
                      \* and what it printed and called

vars == <<environ, phase, MAPBOX_API_KEY, config_file, path, map, html_path, calls, stdout, ops, last>>

(***************************************************************************)
(* Bounds                                                                  *)
(***************************************************************************)
\* longest data list and longest names list passed to add_data
MaxLen == 2
\* number of method calls made on a constructed object
MaxOps == 3

(***************************************************************************)
(* Python values                                                           *)
(***************************************************************************)
\* None; no str equals it (a str is a sequence of one-character strings)
None == <<"<None>">>

\* the exceptions the code can raise
NoError == "NoError"

Min(a, b) == IF a <= b THEN a ELSE b

\* str.lower on one character
UpperCase == <<"A","B","C","D","E","F","G","H","I","J","K","L","M",
               "N","O","P","Q","R","S","T","U","V","W","X","Y","Z">>
LowerCase == <<"a","b","c","d","e","f","g","h","i","j","k","l","m",
               "n","o","p","q","r","s","t","u","v","w","x","y","z">>

LowerChar(c) ==
    IF \E i \in 1..26 : UpperCase[i] = c
    THEN LowerCase[CHOOSE i \in 1..26 : UpperCase[i] = c]
    ELSE c

\* a lower that leaves its argument as it is
LowerKeepsCase(s) == s

\* str.lower
Lower(s) == [i \in 1..Len(s) |-> LowerChar(s[i])]

\* the placeholder of the config template, one token of the template's text
PLACEHOLDER == "{MAPBOX_API_KEY}"

\* text.replace('{MAPBOX_API_KEY}', new): every occurrence, left to right,
\* the inserted text is not scanned again
RECURSIVE Replace(_, _, _)
Replace(text, old, new) ==
    IF text = <<>> THEN <<>>
    ELSE IF Head(text) = old THEN new \o Replace(Tail(text), old, new)
    ELSE <<Head(text)>> \o Replace(Tail(text), old, new)

\* str(x) of a natural number, in decimal
Digit(d) == CASE d = 0 -> "0" [] d = 1 -> "1" [] d = 2 -> "2" [] d = 3 -> "3"
              [] d = 4 -> "4" [] d = 5 -> "5" [] d = 6 -> "6" [] d = 7 -> "7"
              [] d = 8 -> "8" [] d = 9 -> "9"

RECURSIVE ToStr(_)
ToStr(n) == IF n < 10 THEN <<Digit(n)>> ELSE ToStr(n \div 10) \o <<Digit(n % 10)>>

(***************************************************************************)
(* String literals of the source                                           *)
(***************************************************************************)
s_streets == <<"s","t","r","e","e","t","s">>
s_outdoors == <<"o","u","t","d","o","o","r","s">>
s_light == <<"l","i","g","h","t">>
s_dark == <<"d","a","r","k">>
s_satellite == <<"s","a","t","e","l","l","i","t","e">>
s_satellite_streets == s_satellite \o <<"-">> \o s_streets
s_custom == <<"c","u","s","t","o","m">>
s_data == <<"d","a","t","a">>
s_vis_html == <<"_","v","i","s",".","h","t","m","l">>
s_defaultmap_vis_html == <<"d","e","f","a","u","l","t","m","a","p">> \o s_vis_html
s_file_scheme == <<"f","i","l","e",":","/","/">>
s_bundled == <<"k","e","p","l","e","r","g","l","_","c","o","n","f","i","g",".","j","s","o","n">>

standard_styles ==
    <<s_streets, s_outdoors, s_light, s_dark, s_satellite, s_satellite_streets>>

\* x in standard_styles
InList(x, l) == \E i \in 1..Len(l) : l[i] = x

WarningMsg == "Warning: api_key not provided and MAPBOX_API_KEY environment variable not set.\nMap may not display."

(***************************************************************************)
(* The config template files                                               *)
(*                                                                         *)
(* A file's text is [syntax, doc]: doc is the JSON document the text       *)
(* spells, its string values still holding the placeholder token, and      *)
(* syntax tells whether the text is JSON at all.                           *)
(***************************************************************************)
s_muted == <<"m","u","t","e","d">>
s_label == <<"C","u","s","t","o","m"," ","m","a","p"," ","s","t","y","l","e">>
s_old_url == <<"m",":","/","o","l","d">>

NoStyles == [k \in {} |-> None]

Doc(styleType, mapStyles) ==
    [config |-> [version |-> "v1",
                 config |-> [mapStyle |-> [styleType |-> styleType, mapStyles |-> mapStyles]]]]

\* keplergl_config.json, the template bundled with the package
BundledTemplate ==
    [syntax |-> TRUE,
     doc |-> Doc(s_streets,
                 s_streets :> [accessToken |-> <<PLACEHOLDER>>, custom |-> TRUE,
                               icon |-> <<"i">>, id |-> s_streets,
                               label |-> s_streets, url |-> <<"m",":","/","s">>])]

\* a template whose styleType names neither a preset nor an entry of mapStyles
MutedTemplate == [syntax |-> TRUE, doc |-> Doc(s_muted, NoStyles)]

\* a template that already selects a custom entry with the five keys
CustomTemplate ==
    [syntax |-> TRUE,
     doc |-> Doc(s_custom,
                 s_custom :> [accessToken |-> <<"t", PLACEHOLDER>>, custom |-> TRUE,
                              id |-> s_custom, label |-> s_label, url |-> s_old_url])]

\* a template that selects a custom entry with other keys
StaleTemplate ==
    [syntax |-> TRUE,
     doc |-> Doc(s_custom,
                 s_custom :> [accessToken |-> <<PLACEHOLDER>>, icon |-> <<"i">>,
                              id |-> s_custom, url |-> s_old_url])]

\* a template without the mapStyle section
BareTemplate ==
    [syntax |-> TRUE,
     doc |-> [config |-> [version |-> "v1", config |-> [visState |-> <<PLACEHOLDER>>]]]]

\* a file that is not JSON
BrokenTemplate == [syntax |-> FALSE, doc |-> [config |-> [version |-> "v1"]]]

f_muted == <<"f","1">>
f_custom == <<"f","2">>
f_stale == <<"f","3">>
f_bare == <<"f","4">>
f_broken == <<"f","5">>
f_missing == <<"f","6">>

\* the files open() can read; f_missing is not among them
FileSystem ==
    (s_bundled :> BundledTemplate) @@ (f_muted :> MutedTemplate) @@
    (f_custom :> CustomTemplate) @@ (f_stale :> StaleTemplate) @@
    (f_bare :> BareTemplate) @@ (f_broken :> BrokenTemplate)

HasMapStyle(doc) == "mapStyle" \in DOMAIN doc.config.config

\* text.replace applied to one entry of mapStyles
ReplaceEntry(e, old, new) ==
    [k \in DOMAIN e |-> IF k = "custom" THEN e[k] ELSE Replace(e[k], old, new)]

\* text = text.replace('{MAPBOX_API_KEY}', self.MAPBOX_API_KEY), on every
\* string value of the text
ReplaceText(text, old, new) ==
    IF ~text.syntax THEN text
    ELSE IF HasMapStyle(text.doc)
    THEN LET ms == text.doc.config.config.mapStyle IN
         [text EXCEPT !.doc = Doc(Replace(ms.styleType, old, new),
                                  [k \in DOMAIN ms.mapStyles |->
                                      ReplaceEntry(ms.mapStyles[k], old, new)])]
    ELSE [text EXCEPT !.doc.config.config.visState = Replace(@, old, new)]

\* a double quote inside a string value ends the JSON string early
Quote == "\""
HasQuote(s) == \E i \in 1..Len(s) : s[i] = Quote

\* json.loads(text) succeeds
Parses(text) ==
    /\ text.syntax
    /\ IF HasMapStyle(text.doc)
       THEN LET ms == text.doc.config.config.mapStyle IN
            /\ ~HasQuote(ms.styleType)
            /\ \A k \in DOMAIN ms.mapStyles :
                 \A f \in DOMAIN ms.mapStyles[k] \ {"custom"} : ~HasQuote(ms.mapStyles[k][f])
       ELSE ~HasQuote(text.doc.config.config.visState)

(***************************************************************************)
(* Visualize.config                                                        *)
(***************************************************************************)
\* a custom entry without its label
CustomStyleNoLabel(key, style) ==
    [accessToken |-> key, custom |-> TRUE, id |-> s_custom, url |-> style]

\* the dict d of the custom branch
CustomStyle(key, style) ==
    [accessToken |-> key, custom |-> TRUE, id |-> s_custom, label |-> s_label, url |-> style]

\* the style branch of config, on the parsed document
SetStyle(keplergl_config, key, style0) ==
    LET style == Lower(style0)
        ms == keplergl_config.config.config.mapStyle
    IN IF InList(style, standard_styles)
       THEN [keplergl_config EXCEPT !.config.config.mapStyle.styleType = style]
       ELSE [keplergl_config EXCEPT
                !.config.config.mapStyle.mapStyles =
                    (s_custom :> CustomStyle(key, style)) @@ ms.mapStyles,
                !.config.config.mapStyle.styleType = s_custom]

\* config(style), reading self.config_file and self.MAPBOX_API_KEY:
\* [err, ret], ret being keplergl_config['config']
config(file, key, style) ==
    IF file \notin DOMAIN FileSystem THEN [err |-> "FileNotFoundError", ret |-> None]
    ELSE IF key = None THEN [err |-> "TypeError", ret |-> None]
    ELSE LET text == ReplaceText(FileSystem[file], PLACEHOLDER, key) IN
         IF ~Parses(text) THEN [err |-> "JSONDecodeError", ret |-> None]
         ELSE IF style = None THEN [err |-> NoError, ret |-> text.doc.config]
         ELSE IF ~HasMapStyle(text.doc) THEN [err |-> "KeyError", ret |-> None]
         ELSE [err |-> NoError, ret |-> SetStyle(text.doc, key, style).config]


(***************************************************************************)
(* Data payloads                                                           *)
(*                                                                         *)
(* A payload is [cls, value]: its class, and its content (for a geometry   *)
(* object, its __geo_interface__).                                         *)
(***************************************************************************)
SHAPELY_GEOJSON_CLASSES ==
    {"shapely.geometry.LineString", "shapely.geometry.LinearRing",
     "shapely.geometry.MultiLineString", "shapely.geometry.MultiPoint",
     "shapely.geometry.MultiPolygon", "shapely.geometry.Point",
     "shapely.geometry.Polygon", "geojson.Feature", "geojson.FeatureCollection",
     "geojson.GeoJSON", "geojson.GeoJSONEncoder", "geojson.GeometryCollection",
     "geojson.LineString", "geojson.MultiLineString", "geojson.MultiPoint",
     "geojson.MultiPolygon", "geojson.Point", "geojson.Polygon"}

\* dict(mapping(datum)): a plain dict holding the object's geo interface
mapping(datum) == [cls |-> "dict", value |-> datum.value]

\* the conversion of one datum in the loop of add_data
Convert(datum) == IF datum.cls \in SHAPELY_GEOJSON_CLASSES THEN mapping(datum) ELSE datum

\* zip(data, names): stops at the shorter of the two
Zip(data, names) == [i \in 1..Min(Len(data), Len(names)) |-> <<data[i], names[i]>>]

\* names counted from 1
GenNamesFromOne(name_stub, n) == [i \in 1..n |-> name_stub \o <<"_">> \o ToStr(i)]

\* [f'{name_stub}_{x}' for x in range(len(data))]
GenNames(name_stub, n) == [i \in 1..n |-> name_stub \o <<"_">> \o ToStr(i - 1)]

\* an assertion that never fails
LengthsUnchecked(data, names) == TRUE

\* assert len(data) == len(names)
LengthsAgree(data, names) == Len(data) = Len(names)

(***************************************************************************)
(* The renderer, keplergl.KeplerGl                                         *)
(***************************************************************************)
NoData == [k \in {} |-> None]

\* self.map before KeplerGl(config=config) ran
NoMap == [config |-> [unset |-> TRUE], data |-> NoData]

\* KeplerGl(config=config)
KeplerGl(cfg) == [config |-> cfg, data |-> NoData]

\* KeplerGl.add_data(data, name): the dataset is stored under its name
RECURSIVE Feed(_, _)
Feed(m, cs) ==
    IF cs = <<>> THEN m
    ELSE Feed([m EXCEPT !.data = (Head(cs).name :> Head(cs).data) @@ m.data], Tail(cs))

(***************************************************************************)
(* Visualize.add_data and Visualize.render                                 *)
(***************************************************************************)
\* data and names are tagged: [tag |-> "None"], [tag |-> "list", v |-> <<...>>],
\* and for data [tag |-> "obj", v |-> payload], for names [tag |-> "str", v |-> str]
IsNone(a) == a.tag = "None"
IsList(a) == a.tag = "list"

\* add_data(data, names) on renderer m: [err, map, calls]
add_data(m, data0, names0) ==
    LET data == IF IsList(data0) THEN data0.v ELSE <<data0.v>>
        names == IF IsList(names0) THEN names0.v
                 ELSE GenNames(IF IsNone(names0) THEN s_data ELSE names0.v, Len(data))
        pairs == Zip(data, names)
        cs == [i \in 1..Len(pairs) |->
                 [fn |-> "add_data", data |-> Convert(pairs[i][1]), name |-> pairs[i][2]]]
    IN IF IsList(names0) /\ ~LengthsAgree(data, names)
       THEN [err |-> "AssertionError", map |-> m, calls |-> <<>>]
       ELSE [err |-> NoError, map |-> Feed(m, cs), calls |-> cs]

\* a render that opens the browser before the file is saved
renderOpensFirst(p, open_browser, read_only, center_map, writable) ==
    LET save == [fn |-> "save_to_html", file_name |-> p,
                 read_only |-> read_only, center_map |-> center_map]
        open == [fn |-> "open_new_tab", url |-> s_file_scheme \o p]
    IN IF ~writable THEN [err |-> "OSError", ret |-> None, calls |-> <<save>>]
       ELSE [err |-> NoError, ret |-> p,
             calls |-> IF open_browser THEN <<open, save>> ELSE <<save>>]

\* render(open_browser, read_only, center_map) with self.path = p: [err, ret, calls].
\* writable: save_to_html can write the file (its failure is propagated);
\* the result of webbrowser.open_new_tab is dropped
render(p, open_browser, read_only, center_map, writable) ==
    LET save == [fn |-> "save_to_html", file_name |-> p,
                 read_only |-> read_only, center_map |-> center_map]
        open == [fn |-> "open_new_tab", url |-> s_file_scheme \o p]
    IN IF ~writable THEN [err |-> "OSError", ret |-> None, calls |-> <<save>>]
       ELSE [err |-> NoError, ret |-> p,
             calls |-> IF open_browser THEN <<save, open>> ELSE <<save>>]

(***************************************************************************)
(* Visualize.__init__                                                      *)
(***************************************************************************)
\* lines 61-64
ResolveKey(api_key) == IF api_key # None THEN api_key ELSE environ

\* lines 65-68
Warnings(api_key) == IF api_key = None /\ environ = None THEN <<WarningMsg>> ELSE <<>>

\* lines 69-72
ResolveConfigFile(cfile) == IF cfile = None THEN s_bundled ELSE cfile

\* a path without the suffix
ResolvePathNoSuffix(output_map, tmp) ==
    IF output_map # None THEN output_map
    ELSE tmp \o <<"/">> \o s_defaultmap_vis_html

\* lines 73-76; tmp is the directory tempfile.mkdtemp() made
ResolvePath(output_map, tmp) ==
    IF output_map # None THEN output_map \o s_vis_html
    ELSE tmp \o <<"/">> \o s_defaultmap_vis_html

\* what webbrowser.open_new_tab returned, "n/a" when it was not called
Launch(cs, launched) ==
    IF \E i \in 1..Len(cs) : cs[i].fn = "open_new_tab"
    THEN (IF launched THEN "yes" ELSE "no") ELSE "n/a"

Visualize(data, names, read_only, api_key, style, cfile, output_map, open_browser, tmp, writable, launched) ==
    LET key == ResolveKey(api_key)
        c == config(ResolveConfigFile(cfile), key, style)
        m == KeplerGl(c.ret)
        a == IF c.err = NoError /\ ~IsNone(data) THEN add_data(m, data, names)
             ELSE [err |-> c.err, map |-> m, calls |-> <<>>]
        r == IF a.err = NoError /\ ~IsNone(data)
             THEN render(ResolvePath(output_map, tmp), open_browser, read_only, TRUE, writable)
             ELSE [err |-> a.err, ret |-> None, calls |-> <<>>]
        cs == a.calls \o r.calls
    IN /\ phase = "new"
       /\ MAPBOX_API_KEY' = key
       /\ stdout' = stdout \o Warnings(api_key)
       /\ config_file' = ResolveConfigFile(cfile)
       /\ path' = ResolvePath(output_map, tmp)
       /\ map' = IF c.err = NoError THEN a.map ELSE NoMap
       /\ html_path' = r.ret
       /\ calls' = calls \o cs
       /\ phase' = IF r.err = NoError THEN "ready" ELSE "failed"
       /\ last' = [op |-> "__init__",
                   args |-> [data |-> data, names |-> names, api_key |-> api_key,
                             style |-> style, config_file |-> cfile,
                             output_map |-> output_map, open_browser |-> open_browser,
                             tmp |-> tmp],
                   err |-> r.err, ret |-> None, printed |-> Warnings(api_key),
                   calls |-> cs, launched |-> Launch(cs, launched)]
       /\ UNCHANGED <<environ, ops>>

\* a call of add_data on the constructed object
AddData(data, names) ==
    LET a == add_data(map, data, names)
    IN /\ phase = "ready"
       /\ map' = a.map
       /\ calls' = calls \o a.calls
       /\ ops' = ops + 1
       /\ last' = [op |-> "add_data", args |-> [data |-> data, names |-> names],
                   err |-> a.err, ret |-> None, printed |-> <<>>,
                   calls |-> a.calls, launched |-> "n/a"]
       /\ UNCHANGED <<environ, phase, MAPBOX_API_KEY, config_file, path, html_path, stdout>>

\* a call of render on the constructed object
Render(open_browser, read_only, center_map, writable, launched) ==
    LET r == render(path, open_browser, read_only, center_map, writable)
    IN /\ phase = "ready"
       /\ calls' = calls \o r.calls
       /\ ops' = ops + 1
       /\ last' = [op |-> "render", args |-> [open_browser |-> open_browser],
                   err |-> r.err, ret |-> r.ret, printed |-> <<>>,
                   calls |-> r.calls, launched |-> Launch(r.calls, launched)]
       /\ UNCHANGED <<environ, phase, MAPBOX_API_KEY, config_file, path, map, html_path, stdout>>


(***************************************************************************)
(* Inputs                                                                  *)
(***************************************************************************)
K_arg == <<"p","k">>
K_env == <<"e","v">>
K_quote == <<"q", Quote>>

s_DARK == <<"D","A","R","K">>
s_Satellite_Streets ==
    <<"S","a","t","e","l","l","i","t","e","-","S","T","R","E","E","T","S">>
s_url == <<"m",":","/","x","y">>
s_Url == <<"m",":","/","X","y">>

Styles == {None, s_dark, s_DARK, s_Satellite_Streets, s_url, s_Url}
ApiKeys == {None, K_arg, K_quote}
ConfigFiles == {None, f_muted, f_custom, f_stale, f_bare, f_broken, f_missing}

\* a shapely Point, converted by add_data, and a GeoDataFrame, passed through
P_point == [cls |-> "shapely.geometry.Point",
            value |-> [type |-> "Point", coordinates |-> <<1, 2>>]]
P_frame == [cls |-> "geopandas.GeoDataFrame",
            value |-> [type |-> "FeatureCollection", coordinates |-> <<3, 4>>]]
Payloads == {P_point, P_frame}

n_a == <<"a">>
n_b == <<"b">>
s_stub == <<"n">>

NoneArg == [tag |-> "None"]
Obj(v) == [tag |-> "obj", v |-> v]
Str(v) == [tag |-> "str", v |-> v]
List(v) == [tag |-> "list", v |-> v]

SeqsUpTo(S, n) == UNION {[1..k -> S] : k \in 0..n}

\* every data argument and every names argument up to MaxLen
DataArgs == {Obj(v) : v \in Payloads} \cup {List(l) : l \in SeqsUpTo(Payloads, MaxLen)}
NamesArgs == {NoneArg, Str(s_stub)} \cup {List(l) : l \in SeqsUpTo({n_a, n_b}, MaxLen)}

\* the arguments of the runs of several calls
FewData == {Obj(P_frame), List(<<P_point, P_frame>>)}
FewNames == {NoneArg, List(<<n_a>>), List(<<n_a, n_b>>)}

o_out == <<"o">>
t_1 == <<"/","t","1">>
t_2 == <<"/","t","2">>

(***************************************************************************)
(* Specifications                                                          *)
(***************************************************************************)
Init ==
    /\ environ \in {None, K_env}
    /\ phase = "new"
    /\ MAPBOX_API_KEY = None
    /\ config_file = None
    /\ path = None
    /\ map = NoMap
    /\ html_path = None
    /\ calls = <<>>
    /\ stdout = <<>>
    /\ ops = 0
    /\ last = [op |-> "none", args |-> [data |-> NoneArg], err |-> NoError, ret |-> None,
               printed |-> <<>>, calls |-> <<>>, launched |-> "n/a"]

\* construction with the credential of the environment, then up to MaxOps
\* calls of add_data and render
Next ==
    \/ \E data \in {NoneArg} \cup FewData, names \in FewNames,
          output_map \in {None, o_out}, tmp \in {t_1, t_2},
          open_browser \in BOOLEAN, writable \in BOOLEAN, launched \in BOOLEAN :
            Visualize(data, names, FALSE, None, None, None, output_map,
                      open_browser, tmp, writable, launched)
    \/ /\ ops < MaxOps
       /\ \E data \in FewData, names \in FewNames : AddData(data, names)
    \/ /\ ops < MaxOps
       /\ \E open_browser \in BOOLEAN, read_only \in BOOLEAN,
             writable \in BOOLEAN, launched \in BOOLEAN :
            Render(open_browser, read_only, TRUE, writable, launched)

Spec == Init /\ [][Next]_vars

\* construction over every credential, style and template
NextConfig ==
    \E api_key \in ApiKeys, style \in Styles, cfile \in ConfigFiles,
       data \in {NoneArg, Obj(P_point)} :
        Visualize(data, NoneArg, FALSE, api_key, style, cfile, None, FALSE, t_1, TRUE, TRUE)

SpecConfig == Init /\ [][NextConfig]_vars

\* construction and one add_data call over every data and names argument
NextData ==
    \/ \E data \in {NoneArg} \cup DataArgs, names \in NamesArgs :
          Visualize(data, names, FALSE, K_arg, None, None, None, FALSE, t_1, TRUE, TRUE)
    \/ /\ ops < 1
       /\ \E data \in DataArgs, names \in NamesArgs : AddData(data, names)

SpecData == Init /\ [][NextData]_vars


(***************************************************************************)
(* Properties                                                              *)
(***************************************************************************)
Constructed == last.op = "__init__"

\* the calls of add_data among a sequence of calls
Adds(cs) == {i \in 1..Len(cs) : cs[i].fn = "add_data"}

\* the payloads of a data argument, in order
PayloadsOf(data) == IF IsList(data) THEN data.v ELSE <<data.v>>

\* two strings equal up to letter case
SameLetter(a, b) == a = b \/ \E i \in 1..26 : {a, b} = {UpperCase[i], LowerCase[i]}
SameIgnoringCase(a, b) ==
    Len(a) = Len(b) /\ \A i \in 1..Len(a) : SameLetter(a[i], b[i])
MatchesPreset(style) ==
    \E i \in 1..Len(standard_styles) : SameIgnoringCase(style, standard_styles[i])

\* the mapStyle section of the configuration the renderer holds
MapStyle == map.config.config.mapStyle

\* the template a construction read
TemplateOf(args) == FileSystem[IF args.config_file = None THEN s_bundled ELSE args.config_file]

FiveKeys == {"accessToken", "custom", "id", "label", "url"}

\* a configuration with a resolved style reference
Resolved(cfg) ==
    /\ "mapStyle" \in DOMAIN cfg.config
    /\ LET ms == cfg.config.mapStyle IN
       \/ InList(ms.styleType, standard_styles)
       \/ /\ ms.styleType \in DOMAIN ms.mapStyles
          /\ DOMAIN ms.mapStyles[ms.styleType] = FiveKeys

\* C1: constructing with no api_key and no MAPBOX_API_KEY in the environment,
\* on a template and style that construct with a credential, prints the
\* warning and still returns a constructed object with a renderer (and a
\* saved map when data is given).
C1_MissingCredentialNonFatal ==
    (/\ Constructed
     /\ last.args.api_key = None
     /\ environ = None
     /\ config(config_file, K_arg, last.args.style).err = NoError)
    => /\ last.printed = <<WarningMsg>>
       /\ phase = "ready"
       /\ map # NoMap
       /\ ~IsNone(last.args.data) => \E i \in 1..Len(calls) : calls[i].fn = "save_to_html"

\* C2: after config(style) with a style that matches no preset, mapStyles
\* holds a 'custom' entry whose url is the style exactly as the caller gave
\* it and whose accessToken is the credential, and styleType is 'custom'.
C2_CustomUrlAsGiven ==
    (/\ Constructed
     /\ map # NoMap
     /\ last.args.style # None
     /\ ~MatchesPreset(last.args.style))
    => /\ s_custom \in DOMAIN MapStyle.mapStyles
       /\ MapStyle.mapStyles[s_custom].url = last.args.style
       /\ MapStyle.mapStyles[s_custom].accessToken = MAPBOX_API_KEY
       /\ MapStyle.styleType = s_custom

\* C3: after config(style) with a style that matches a preset up to letter
\* case, styleType is that preset in lower case and mapStyles has the
\* template's entries, no 'custom' entry having been inserted.
C3_PresetStyle ==
    (/\ Constructed
     /\ map # NoMap
     /\ last.args.style # None
     /\ MatchesPreset(last.args.style))
    => LET tms == TemplateOf(last.args).doc.config.config.mapStyle IN
       /\ \E i \in 1..Len(standard_styles) :
            /\ MapStyle.styleType = standard_styles[i]
            /\ SameIgnoringCase(last.args.style, standard_styles[i])
       /\ DOMAIN MapStyle.mapStyles = DOMAIN tms.mapStyles
       /\ \A k \in DOMAIN tms.mapStyles : MapStyle.mapStyles[k].url = tms.mapStyles[k].url

C3_Witness ==
    /\ Constructed
    /\ phase = "ready"
    /\ last.args.style = s_DARK
    /\ last.args.config_file = f_muted
    /\ MapStyle.styleType = s_dark

\* C4 as stated: whatever the template and the style (None included), the
\* configuration handed to the renderer has a resolved style reference.
C4_AlwaysResolved == (Constructed /\ map # NoMap) => Resolved(map.config)

\* C4, amended: the configuration handed to the renderer has a resolved
\* style reference for every style other than None; with style None it has
\* one exactly when the template has one.
C4_ResolvedStyle ==
    (Constructed /\ map # NoMap)
    => (Resolved(map.config)
          <=> (last.args.style # None \/ Resolved(TemplateOf(last.args).doc.config)))

C4_Witness ==
    /\ Constructed
    /\ phase = "ready"
    /\ last.args.style = s_Url
    /\ last.args.config_file = f_stale
    /\ MapStyle.styleType = s_custom
    /\ DOMAIN MapStyle.mapStyles[s_custom] = FiveKeys


\* C5: an add_data whose names is a list of another length than the data
\* fails with an AssertionError and hands nothing to the renderer: no call
\* is made and the renderer's datasets stay as they were.
C5_LengthMismatchFails ==
    [][(/\ last'.op \in {"add_data", "__init__"}
        /\ ~IsNone(last'.args.data)
        /\ IsList(last'.args.names)
        /\ Len(PayloadsOf(last'.args.data)) # Len(last'.args.names.v))
       => /\ last'.err = "AssertionError"
          /\ last'.calls = <<>>
          /\ calls' = calls
          /\ map'.data = map.data]_vars

C5_Witness ==
    /\ last.op = "add_data"
    /\ last.args.data = List(<<P_point, P_frame>>)
    /\ last.args.names = List(<<n_a>>)
    /\ last.err = "AssertionError"
    /\ DOMAIN map.data = {s_data \o <<"_", "0">>}

\* C6: an add_data whose names is not a list makes one renderer call per
\* payload, in order, the i-th (from 0) under the name <stub>_<i>, stub being
\* 'data' for None and the given string otherwise; a payload that is not a
\* list is one payload, named <stub>_0.
C6_GeneratedNames ==
    (/\ last.op \in {"add_data", "__init__"}
     /\ ~IsNone(last.args.data)
     /\ ~IsList(last.args.names)
     /\ phase = "ready")
    => LET ps == PayloadsOf(last.args.data)
           stub == IF IsNone(last.args.names) THEN s_data ELSE last.args.names.v
       IN /\ last.err = NoError
          /\ Cardinality(Adds(last.calls)) = Len(ps)
          /\ IsList(last.args.data) \/ Len(ps) = 1
          /\ \A i \in 1..Len(ps) :
                /\ last.calls[i].fn = "add_data"
                /\ last.calls[i].name = stub \o <<"_">> \o ToStr(i - 1)
                /\ last.calls[i].data.value = ps[i].value
                /\ map.data[last.calls[i].name].value = ps[i].value

C6_Witness ==
    /\ last.op = "add_data"
    /\ last.args.data = List(<<P_frame, P_point>>)
    /\ last.args.names = Str(s_stub)
    /\ Len(last.calls) = 2
    /\ last.calls[2].name = <<"n", "_", "1">>
    /\ last.calls[2].data = [cls |-> "dict", value |-> P_point.value]

\* C7: no two payloads go to the renderer under the same name: the renderer
\* holds as many named datasets as payloads were handed to it.
C7_UniqueNames == Cardinality(DOMAIN map.data) = Cardinality(Adds(calls))

\* C8: a render whose browser launch fails reports the failure, raises
\* nothing and returns the output path after saving the file.
C8_LaunchFailureReported ==
    (last.op = "render" /\ last.launched = "no")
    => /\ last.err = NoError
       /\ last.ret = path
       /\ last.calls[1].fn = "save_to_html"
       /\ last.printed # <<>>

\* the calls a render at path p makes, after the calls of add_data
RenderCallsAt(cs, p, open_browser) ==
    LET rs == SubSeq(cs, Cardinality(Adds(cs)) + 1, Len(cs)) IN
    /\ Len(rs) = IF open_browser THEN 2 ELSE 1
    /\ rs[1].fn = "save_to_html" /\ rs[1].file_name = p
    /\ open_browser => rs[2].fn = "open_new_tab" /\ rs[2].url = s_file_scheme \o p

\* C9: construction sets the path to output_map + '_vis.html', or to
\* <temp dir>/defaultmap_vis.html without output_map; no later call changes
\* it, and every render that returns has saved to it, opened 'file://' + it
\* when open_browser is set, and returned it.
C9_PathFixed ==
    [][/\ phase = "new" =>
            path' = IF last'.args.output_map # None
                    THEN last'.args.output_map \o s_vis_html
                    ELSE last'.args.tmp \o <<"/">> \o s_defaultmap_vis_html
       /\ phase # "new" => path' = path
       /\ (last'.op = "render" /\ last'.err = NoError) =>
            /\ last'.ret = path'
            /\ RenderCallsAt(last'.calls, path', last'.args.open_browser)
       /\ (last'.op = "__init__" /\ last'.err = NoError /\ ~IsNone(last'.args.data)) =>
            /\ html_path' = path'
            /\ RenderCallsAt(last'.calls, path', last'.args.open_browser)]_vars

C9_Witness ==
    /\ ops = 2
    /\ last.op = "render"
    /\ last.args.open_browser
    /\ last.ret = o_out \o s_vis_html
    /\ Cardinality(Adds(calls)) = 3
    /\ last.calls[2].url = s_file_scheme \o o_out \o s_vis_html

\* the calls of add_data that a data argument gives rise to, in order
AddsInOrder(cs, data) ==
    LET ps == PayloadsOf(data) IN
    /\ Cardinality(Adds(cs)) = Len(ps)
    /\ \A i \in 1..Len(ps) : cs[i].fn = "add_data" /\ cs[i].data.value = ps[i].value

====
